---- MODULE Spec2Model ----
(***************************************************************************)
(* Bidder config watcher (main.go): a polling loop that fetches a          *)
(* parameter snapshot, diffs it against the in-memory LastSeen baseline,   *)
(* rewrites the .env file through a temporary file and a rename, confirms  *)
(* the rewrite by re-reading the file, advances the baseline and reloads   *)
(* the bidder service.                                                     *)
(*                                                                         *)
(* Text is a sequence of characters.  The words that the code matches as a *)
(* whole (the three key names and "export") are single elements of the     *)
(* sequence; every other element is one character.  "x" stands for any     *)
(* character that is not special to the parser or to the regexp.  The      *)
(* carriage return is not part of the alphabet.                            *)
(*                                                                         *)
(* A float64 is modelled by the integer number of 1e-7 units it holds, so  *)
(* that formatting to six decimals loses information as "%.6f" does.       *)
(*                                                                         *)
(* The environment: every system call whose error the code handles can     *)
(* fail; os.Rename replaces the target in one step; the os.Remove of the   *)
(* deferred function, whose error the code drops, removes the temporary    *)
(* file.  No other process writes the .env file.                           *)
(***************************************************************************)
EXTENDS Integers, Sequences, FiniteSets, TLC

envSmallBid == "BID_SMALL_AMOUNT"
envLargeBid == "BID_LARGE_AMOUNT"
envMaxConcurrency == "BIDDER_MAX_CONCURRENT_PROOFS"

Keys == {envSmallBid, envLargeBid, envMaxConcurrency}

(***************************************************************************)
(* Text helpers (package strings, fmt, bufio).                             *)
(***************************************************************************)
Digit(d) == CASE d = 0 -> "0" [] d = 1 -> "1" [] d = 2 -> "2" [] d = 3 -> "3"
              [] d = 4 -> "4" [] d = 5 -> "5" [] d = 6 -> "6" [] d = 7 -> "7"
              [] d = 8 -> "8" [] d = 9 -> "9"

RECURSIVE FormatInt(_)
\* fmt.Sprintf("%d", n) for n >= 0
FormatInt(n) == IF n < 10 THEN <<Digit(n)>>
                ELSE FormatInt(n \div 10) \o <<Digit(n % 10)>>

RECURSIVE PadDigits(_, _)
\* the w low decimal digits of n, zero padded
PadDigits(n, w) == IF w = 0 THEN <<>>
                   ELSE PadDigits(n \div 10, w - 1) \o <<Digit(n % 10)>>

RECURSIVE TrimRight(_, _)
\* strings.TrimRight(s, c) for a one-character cutset
TrimRight(s, c) == IF Len(s) > 0 /\ s[Len(s)] = c
                   THEN TrimRight(SubSeq(s, 1, Len(s) - 1), c)
                   ELSE s

\* fmt.Sprintf("%.6f", f): f holds units of 1e-7, rounded to units of 1e-6
Sprintf6f(f) == LET micro == (f + 5) \div 10
                IN  FormatInt(micro \div 1000000) \o <<".">> \o PadDigits(micro % 1000000, 6)

formatFloat(f) == TrimRight(TrimRight(Sprintf6f(f), "0"), ".")

\* unicode.IsSpace over the alphabet of the model; also the regexp class \s
IsSpace(c) == c \in {" ", "\t", "\n"}

RECURSIVE TrimLeftSpace(_)
TrimLeftSpace(s) == IF Len(s) > 0 /\ IsSpace(s[1]) THEN TrimLeftSpace(Tail(s)) ELSE s

RECURSIVE TrimRightSpace(_)
TrimRightSpace(s) == IF Len(s) > 0 /\ IsSpace(s[Len(s)])
                     THEN TrimRightSpace(SubSeq(s, 1, Len(s) - 1))
                     ELSE s

TrimSpace(s) == TrimRightSpace(TrimLeftSpace(s))

HasSuffixNL(s) == Len(s) > 0 /\ s[Len(s)] = "\n"

\* strings.Index(s, c) as a 1-based position, 0 when c does not occur
IndexOf(s, c) == IF \E i \in 1..Len(s) : s[i] = c
                 THEN CHOOSE i \in 1..Len(s) : s[i] = c /\ \A j \in 1..(i - 1) : s[j] # c
                 ELSE 0

\* position of the first "\n" at or after i, Len(s) + 1 when there is none
LineEnd(s, i) == IF \E j \in i..Len(s) : s[j] = "\n"
                 THEN CHOOSE j \in i..Len(s) : s[j] = "\n" /\ \A k \in i..(j - 1) : s[k] # "\n"
                 ELSE Len(s) + 1

RECURSIVE ScanLinesFrom(_, _)
ScanLinesFrom(s, i) == IF i > Len(s) THEN <<>>
                       ELSE LET e == LineEnd(s, i)
                            IN  <<SubSeq(s, i, e - 1)>> \o ScanLinesFrom(s, e + 1)

\* bufio.Scanner with the default ScanLines split: the lines without their
\* terminators; a final empty line after the last "\n" is not returned
ScanLines(s) == ScanLinesFrom(s, 1)

(***************************************************************************)
(* parseEnvToMap                                                           *)
(***************************************************************************)
\* one line of the scan: <<>> when the line is skipped, <<key, val>> otherwise
ParseLine(line) ==
    LET trimmed == TrimSpace(line)
        body == IF Len(trimmed) >= 2 /\ trimmed[1] = "export" /\ trimmed[2] = " "
                THEN TrimSpace(SubSeq(trimmed, 3, Len(trimmed)))
                ELSE trimmed
        idx == IndexOf(body, "=")
    IN  IF trimmed = <<>> \/ trimmed[1] = "#" THEN <<>>
        ELSE IF idx <= 1 THEN <<>>
        ELSE <<TrimSpace(SubSeq(body, 1, idx - 1)), SubSeq(body, idx + 1, Len(body))>>

\* parseEnvToMap keeping the first line of a key instead of the last
parseEnvToMapFirst(data) ==
    LET lines == ScanLines(data)
        parsed == [i \in 1..Len(lines) |-> ParseLine(lines[i])]
        ks == {parsed[i][1] : i \in {j \in 1..Len(lines) : parsed[j] # <<>>}}
    IN  [k \in ks |->
           LET i == CHOOSE i \in 1..Len(lines) :
                       /\ parsed[i] # <<>> /\ parsed[i][1] = k
                       /\ \A j \in 1..(i - 1) : parsed[j] = <<>> \/ parsed[j][1] # k
           IN  parsed[i][2]]

\* the map built by the scan: a later line for a key overwrites an earlier one
parseEnvToMap(data) ==
    LET lines == ScanLines(data)
        parsed == [i \in 1..Len(lines) |-> ParseLine(lines[i])]
        ks == {parsed[i][1] : i \in {j \in 1..Len(lines) : parsed[j] # <<>>}}
    IN  [k \in ks |->
           LET i == CHOOSE i \in 1..Len(lines) :
                       /\ parsed[i] # <<>> /\ parsed[i][1] = k
                       /\ \A j \in (i + 1)..Len(lines) : parsed[j] = <<>> \/ parsed[j][1] # k
           IN  parsed[i][2]]

(***************************************************************************)
(* The regexp (?m)^(export\s+)?KEY=.*$ and ReplaceAllStringFunc            *)
(***************************************************************************)
\* (?m)^ : at the start of the text or right after a "\n"
AtLineStart(s, i) == i = 1 \/ s[i - 1] = "\n"

\* first position at or after i that does not hold a \s character
SpaceRunEnd(s, i) == IF \E j \in i..Len(s) : ~IsSpace(s[j])
                     THEN CHOOSE j \in i..Len(s) : ~IsSpace(s[j]) /\ \A k \in i..(j - 1) : IsSpace(s[k])
                     ELSE Len(s) + 1

\* MatchExportLen for the regexp ^KEY=.*$, without the optional export group
MatchExportLenPlain(s, i, key) ==
    IF i + 1 <= Len(s) /\ s[i] = key /\ s[i + 1] = "=" THEN 0 ELSE -1

\* length of the text matched by (export\s+)? at i when KEY= follows it,
\* -1 when the regexp does not match at i
MatchExportLen(s, i, key) ==
    IF i + 1 <= Len(s) /\ s[i] = key /\ s[i + 1] = "=" THEN 0
    ELSE IF s[i] = "export"
         THEN LET j == SpaceRunEnd(s, i + 1)
              IN  IF j > i + 1 /\ j + 1 <= Len(s) /\ s[j] = key /\ s[j + 1] = "="
                  THEN j - i ELSE -1
         ELSE -1

RECURSIVE ReplaceFrom(_, _, _, _)
\* the scan of ReplaceAllStringFunc from position i: the rewritten text and
\* whether the callback ran
ReplaceFrom(s, i, key, val) ==
    IF i > Len(s) THEN [out |-> <<>>, replaced |-> FALSE]
    ELSE LET m == IF AtLineStart(s, i) THEN MatchExportLen(s, i, key) ELSE -1
         IN  IF m >= 0
             THEN LET exportPrefix == SubSeq(s, i, i + m - 1)
                      rest == ReplaceFrom(s, LineEnd(s, i + m + 2), key, val)
                  IN  [out |-> exportPrefix \o <<key, "=">> \o val \o rest.out,
                       replaced |-> TRUE]
             ELSE LET rest == ReplaceFrom(s, i + 1, key, val)
                  IN  [out |-> <<s[i]>> \o rest.out, replaced |-> rest.replaced]

ReplaceAll(s, key, val) == ReplaceFrom(s, 1, key, val)

(***************************************************************************)
(* Change detection and baseline advance of pollAndUpdate.  A pointer      *)
(* field of ConfigPayload is <<>> when nil and <<v>> when it points to v.  *)
(***************************************************************************)
\* the zero value of LastSeen
ZeroLastSeen == [SmallBid |-> 0, HasSmallBid |-> FALSE,
                 LargeBid |-> 0, HasLargeBid |-> FALSE,
                 MaxConcurrency |-> 0, HasMaxConcurrency |-> FALSE,
                 Initialized |-> FALSE]

DetectSmallBid(p, l) ==
    p.SmallBid # <<>> /\ (~l.Initialized \/ ~l.HasSmallBid \/ l.SmallBid # p.SmallBid[1])

\* DetectLargeBid comparing the values without looking at the presence flag
DetectLargeBidNoFlag(p, l) ==
    p.LargeBid # <<>> /\ (~l.Initialized \/ l.LargeBid # p.LargeBid[1])

DetectLargeBid(p, l) ==
    p.LargeBid # <<>> /\ (~l.Initialized \/ ~l.HasLargeBid \/ l.LargeBid # p.LargeBid[1])

DetectMaxConcurrency(p, l) ==
    p.MaxConcurrency # <<>> /\
        (~l.Initialized \/ ~l.HasMaxConcurrency \/ l.MaxConcurrency # p.MaxConcurrency[1])

\* DetectChanges formatting the small bid under the large bid's key
DetectChangesSwapped(p, l) ==
    LET ks == (IF DetectSmallBid(p, l) THEN {envSmallBid} ELSE {})
                \cup (IF DetectLargeBid(p, l) THEN {envLargeBid} ELSE {})
                \cup (IF DetectMaxConcurrency(p, l) THEN {envMaxConcurrency} ELSE {})
    IN  [k \in ks |-> IF k = envSmallBid THEN formatFloat(p.SmallBid[1])
                      ELSE IF k = envLargeBid
                           THEN formatFloat(IF p.SmallBid # <<>> THEN p.SmallBid[1]
                                            ELSE p.LargeBid[1])
                      ELSE FormatInt(p.MaxConcurrency[1])]

\* the updates map built from the payload and the last-seen values
DetectChanges(p, l) ==
    LET ks == (IF DetectSmallBid(p, l) THEN {envSmallBid} ELSE {})
                \cup (IF DetectLargeBid(p, l) THEN {envLargeBid} ELSE {})
                \cup (IF DetectMaxConcurrency(p, l) THEN {envMaxConcurrency} ELSE {})
    IN  [k \in ks |-> IF k = envSmallBid THEN formatFloat(p.SmallBid[1])
                      ELSE IF k = envLargeBid THEN formatFloat(p.LargeBid[1])
                      ELSE FormatInt(p.MaxConcurrency[1])]

\* AdvanceLastSeen that stores the concurrency without setting its flag
AdvanceLastSeenNoFlag(p, l) ==
    [SmallBid |-> IF p.SmallBid # <<>> THEN p.SmallBid[1] ELSE l.SmallBid,
     HasSmallBid |-> IF p.SmallBid # <<>> THEN TRUE ELSE l.HasSmallBid,
     LargeBid |-> IF p.LargeBid # <<>> THEN p.LargeBid[1] ELSE l.LargeBid,
     HasLargeBid |-> IF p.LargeBid # <<>> THEN TRUE ELSE l.HasLargeBid,
     MaxConcurrency |-> IF p.MaxConcurrency # <<>> THEN p.MaxConcurrency[1] ELSE l.MaxConcurrency,
     HasMaxConcurrency |-> l.HasMaxConcurrency,
     Initialized |-> TRUE]

\* AdvanceLastSeen without the assignment of Initialized
AdvanceLastSeenNoInit(p, l) ==
    [SmallBid |-> IF p.SmallBid # <<>> THEN p.SmallBid[1] ELSE l.SmallBid,
     HasSmallBid |-> IF p.SmallBid # <<>> THEN TRUE ELSE l.HasSmallBid,
     LargeBid |-> IF p.LargeBid # <<>> THEN p.LargeBid[1] ELSE l.LargeBid,
     HasLargeBid |-> IF p.LargeBid # <<>> THEN TRUE ELSE l.HasLargeBid,
     MaxConcurrency |-> IF p.MaxConcurrency # <<>> THEN p.MaxConcurrency[1]
                        ELSE l.MaxConcurrency,
     HasMaxConcurrency |-> IF p.MaxConcurrency # <<>> THEN TRUE ELSE l.HasMaxConcurrency,
     Initialized |-> l.Initialized]

\* AdvanceLastSeen that rebuilds the cache from the payload alone
AdvanceLastSeenReset(p, l) ==
    [SmallBid |-> IF p.SmallBid # <<>> THEN p.SmallBid[1] ELSE 0,
     HasSmallBid |-> p.SmallBid # <<>>,
     LargeBid |-> IF p.LargeBid # <<>> THEN p.LargeBid[1] ELSE 0,
     HasLargeBid |-> p.LargeBid # <<>>,
     MaxConcurrency |-> IF p.MaxConcurrency # <<>> THEN p.MaxConcurrency[1] ELSE 0,
     HasMaxConcurrency |-> p.MaxConcurrency # <<>>,
     Initialized |-> TRUE]

\* the last-seen cache after the three guarded assignments
AdvanceLastSeen(p, l) ==
    [SmallBid |-> IF p.SmallBid # <<>> THEN p.SmallBid[1] ELSE l.SmallBid,
     HasSmallBid |-> IF p.SmallBid # <<>> THEN TRUE ELSE l.HasSmallBid,
     LargeBid |-> IF p.LargeBid # <<>> THEN p.LargeBid[1] ELSE l.LargeBid,
     HasLargeBid |-> IF p.LargeBid # <<>> THEN TRUE ELSE l.HasLargeBid,
     MaxConcurrency |-> IF p.MaxConcurrency # <<>> THEN p.MaxConcurrency[1] ELSE l.MaxConcurrency,
     HasMaxConcurrency |-> IF p.MaxConcurrency # <<>> THEN TRUE ELSE l.HasMaxConcurrency,
     Initialized |-> TRUE]

(***************************************************************************)
(* The text computed by updateEnvFile.  Go iterates a map in an            *)
(* unspecified order: the two range loops take their orders as arguments.  *)
(***************************************************************************)
\* the orders in which a range over a map with key set ks can run
RangeOrders(ks) ==
    {o \in [1..Cardinality(ks) -> ks] : \A i, j \in 1..Cardinality(ks) : i # j => o[i] # o[j]}

RECURSIVE ReplaceLoop(_, _, _)
\* first loop: the text after the replacements and the changed map
ReplaceLoop(text, upd, order) ==
    IF order = <<>> THEN [text |-> text, changed |-> {}]
    ELSE LET r == ReplaceAll(text, Head(order), upd[Head(order)])
             rest == ReplaceLoop(r.out, upd, Tail(order))
         IN  [text |-> rest.text,
              changed |-> rest.changed \cup (IF r.replaced THEN {Head(order)} ELSE {})]

RECURSIVE AppendLoop(_, _, _, _, _)
\* second loop: the builder after the keys that were not replaced are appended
AppendLoop(built, hasTrailingNewline, upd, changed, order) ==
    IF order = <<>> THEN built
    ELSE LET key == Head(order)
         IN  IF key \in changed
             THEN AppendLoop(built, hasTrailingNewline, upd, changed, Tail(order))
             ELSE LET sep == IF Len(built) > 0 /\ ~hasTrailingNewline THEN <<"\n">> ELSE <<>>
                  IN  AppendLoop(built \o sep \o <<key, "=">> \o upd[key] \o <<"\n">>,
                                 TRUE, upd, changed, Tail(order))

\* NewContent without the final check for a trailing newline
NewContentNoFinalNewline(old, upd, order1, order2) ==
    LET r == ReplaceLoop(old, upd, order1)
    IN  AppendLoop(r.text, HasSuffixNL(r.text), upd, r.changed, order2)

\* the content that updateEnvFile hands to the atomic write
NewContent(old, upd, order1, order2) ==
    LET r == ReplaceLoop(old, upd, order1)
        built == AppendLoop(r.text, HasSuffixNL(r.text), upd, r.changed, order2)
    IN  IF HasSuffixNL(built) THEN built ELSE built \o <<"\n">>

\* confirmEnvValues on the bytes it read: TRUE when it returns nil
ConfirmOk(data, expected) ==
    LET found == parseEnvToMap(data)
    IN  \A k \in DOMAIN expected : <<k>> \in DOMAIN found /\ found[<<k>>] = expected[k]

(***************************************************************************)
(* Inputs of the model.                                                    *)
(***************************************************************************)
\* values the endpoint can report: 0.1 and 0.2, 0.5, 10
SmallBids == {1000000, 2000000}
LargeBids == {5000000}
MaxConcurrencies == {10}

NilPayload == [SmallBid |-> <<>>, LargeBid |-> <<>>, MaxConcurrency |-> <<>>]

Payloads == [SmallBid : {<<>>} \cup {<<v>> : v \in SmallBids},
             LargeBid : {<<>>} \cup {<<v>> : v \in LargeBids},
             MaxConcurrency : {<<>>} \cup {<<v>> : v \in MaxConcurrencies}]

NoFile == [exists |-> FALSE, content |-> <<>>]
FileOf(text) == [exists |-> TRUE, content |-> text]

\* the .env files the watcher is started on
InitialFiles ==
    { NoFile,
      FileOf(<<"#", "x", "\n", "export", " ", envSmallBid, "=", "1", "\n",
               envLargeBid, "=", "2">>),
      FileOf(<<"export", "\t", envSmallBid, "=", "1", "\n">>),
      FileOf(<<envSmallBid, "=", "1", "\n", " ", envSmallBid, "=", "0", ".", "1", "\n">>) }

NoUpdates == [k \in {} |-> <<>>]

NoPrev == [confirmed |-> FALSE, reloadErr |-> FALSE, payload |-> NilPayload]

(***************************************************************************)
(* State.                                                                  *)
(***************************************************************************)
VARIABLES
    pc,          \* where the loop of main is: "poll", a step of the cycle, "tick"
    dryRun,      \* the -dry-run flag
    last,        \* *LastSeen
    envFile,     \* the .env file on disk
    tmpFile,     \* the temporary sibling file on disk
    payload,     \* the decoded ConfigPayload of the running cycle
    updates,     \* the updates map of the running cycle
    content,     \* the text updateEnvFile is about to write
    statOk,      \* statErr == nil in updateEnvFile
    lastAtStart, \* history: last when the running cycle started
    fileAtStart, \* history: envFile when the running cycle started
    fetchRes,    \* history: outcome of the GET and the decode
    applyRes,    \* history: outcome of updateEnvFile
    confirmRes,  \* history: outcome of confirmEnvValues
    reloadRes,   \* history: outcome of reloadAndRestart
    reloadCalls, \* history: calls of reloadAndRestart in this cycle
    cmds,        \* history: the commands reloadAndRestart ran in this cycle
    result,      \* history: what pollAndUpdate returned
    prev,        \* history: the previous cycle, when its confirm succeeded
    remote,      \* the snapshot the endpoint serves, where a specification fixes it
    tickerC,     \* ticks buffered in ticker.C
    fired,       \* history: ticks the ticker has fired
    started,     \* history: calls of pollAndUpdate
    dropped      \* history: ticks fired while ticker.C was full

vars == <<pc, dryRun, last, envFile, tmpFile, payload, updates, content, statOk,
          lastAtStart, fileAtStart, fetchRes, applyRes, confirmRes, reloadRes,
          reloadCalls, cmds, result, prev, remote, tickerC, fired, started, dropped>>

setup == <<dryRun, remote>>
ticker == <<tickerC, fired, started, dropped>>
locals == <<payload, updates, content, statOk>>
disk == <<envFile, tmpFile>>
history == <<lastAtStart, fileAtStart, prev>>
reloadHist == <<reloadRes, reloadCalls, cmds>>

\* the variables of the ticker, in the specifications that leave it out
NoTicker ==
    /\ tickerC = 0
    /\ fired = 0
    /\ started = 0
    /\ dropped = 0

InitCycle ==
    /\ tmpFile = NoFile
    /\ payload = NilPayload
    /\ updates = NoUpdates
    /\ content = <<>>
    /\ statOk = FALSE
    /\ fetchRes = "none"
    /\ applyRes = "none"
    /\ confirmRes = "none"
    /\ reloadRes = "none"
    /\ reloadCalls = 0
    /\ cmds = <<>>
    /\ result = "none"

Init ==
    /\ pc = "poll"
    /\ dryRun \in BOOLEAN
    /\ last = ZeroLastSeen
    /\ envFile \in InitialFiles
    /\ lastAtStart = ZeroLastSeen
    /\ fileAtStart = envFile
    /\ prev = NoPrev
    /\ remote = NilPayload
    /\ NoTicker
    /\ InitCycle

\* pollAndUpdate returns r to main, which logs an error and waits for the tick
Return(r) ==
    /\ pc' = "tick"
    /\ result' = r

(***************************************************************************)
(* pollAndUpdate: fetch, decode, detect                                    *)
(***************************************************************************)
\* FetchFail that forgets the last-seen values
FetchFailResets ==
    /\ pc = "poll"
    /\ \E r \in {"transport", "status", "decode"} : fetchRes' = r
    /\ last' = ZeroLastSeen
    /\ Return("err")
    /\ UNCHANGED <<setup, ticker, disk, locals, history, applyRes, confirmRes, reloadHist>>

\* client.Get fails, the status is not 200, or the body does not decode
FetchFail ==
    /\ pc = "poll"
    /\ \E r \in {"transport", "status", "decode"} : fetchRes' = r
    /\ Return("err")
    /\ UNCHANGED <<setup, ticker, last, disk, locals, history, applyRes, confirmRes, reloadHist>>

\* the payload decodes and nothing differs from the last-seen values
PollNoChange ==
    /\ pc = "poll"
    /\ \E p \in Payloads :
          /\ DOMAIN DetectChanges(p, last) = {}
          /\ payload' = p
          /\ updates' = DetectChanges(p, last)
    /\ fetchRes' = "ok"
    /\ Return("nil")
    /\ UNCHANGED <<setup, ticker, last, disk, content, statOk, history, applyRes, confirmRes,
                   reloadHist>>

\* the payload decodes and some value differs
PollDetect ==
    /\ pc = "poll"
    /\ \E p \in Payloads :
          /\ DOMAIN DetectChanges(p, last) # {}
          /\ payload' = p
          /\ updates' = DetectChanges(p, last)
    /\ fetchRes' = "ok"
    /\ pc' = "update"
    /\ UNCHANGED <<setup, ticker, last, disk, content, statOk, history, applyRes, confirmRes,
                   reloadHist, result>>

(***************************************************************************)
(* updateEnvFile                                                           *)
(***************************************************************************)
\* the deferred function closing the temporary file without removing it
RemoveTempKeep(t) == t

\* the deferred function: close and remove the temporary file
RemoveTemp(t) == NoFile

\* updateEnvFile returns the error e to pollAndUpdate, which returns it to main
UpdateFails(e) ==
    /\ applyRes' = e
    /\ Return("err")
    /\ UNCHANGED <<setup, ticker, last, envFile, locals, history, fetchRes, confirmRes, reloadHist>>

\* os.Stat fails other than with not-exist, or os.ReadFile fails
ReadEnvFail ==
    /\ pc = "update"
    /\ \E e \in {"stat .env"} \cup (IF envFile.exists THEN {"read .env"} ELSE {}) :
          UpdateFails(e)
    /\ UNCHANGED tmpFile

\* stat and read, then the new text is computed in memory
ReadEnv ==
    /\ pc = "update"
    /\ statOk' = envFile.exists
    /\ \E o1, o2 \in RangeOrders(DOMAIN updates) :
          content' = NewContent(envFile.content, updates, o1, o2)
    /\ pc' = "createTemp"
    /\ UNCHANGED <<setup, ticker, last, disk, payload, updates, history, fetchRes, applyRes,
                   confirmRes, reloadHist, result>>

CreateTempFail ==
    /\ pc = "createTemp"
    /\ UpdateFails("create temp .env")
    /\ UNCHANGED tmpFile

CreateTemp ==
    /\ pc = "createTemp"
    /\ tmpFile' = FileOf(<<>>)
    /\ pc' = IF statOk THEN "chmod" ELSE "write"
    /\ UNCHANGED <<setup, ticker, last, envFile, locals, history, fetchRes, applyRes, confirmRes,
                   reloadHist, result>>

ChmodFail ==
    /\ pc = "chmod"
    /\ applyRes' = "chmod temp"
    /\ pc' = "cleanup"
    /\ UNCHANGED <<setup, ticker, last, disk, locals, history, fetchRes, confirmRes, reloadHist, result>>

Chmod ==
    /\ pc = "chmod"
    /\ pc' = "write"
    /\ UNCHANGED <<setup, ticker, last, disk, locals, history, fetchRes, applyRes, confirmRes,
                   reloadHist, result>>

\* WriteString fails after some prefix of the text reached the file
WriteTempFail ==
    /\ pc = "write"
    /\ \E n \in 0..(Len(content) - 1) : tmpFile' = FileOf(SubSeq(content, 1, n))
    /\ applyRes' = "write temp .env"
    /\ pc' = "cleanup"
    /\ UNCHANGED <<setup, ticker, last, envFile, locals, history, fetchRes, confirmRes, reloadHist,
                   result>>

WriteTemp ==
    /\ pc = "write"
    /\ tmpFile' = FileOf(content)
    /\ pc' = "sync"
    /\ UNCHANGED <<setup, ticker, last, envFile, locals, history, fetchRes, applyRes, confirmRes,
                   reloadHist, result>>

SyncFail ==
    /\ pc = "sync"
    /\ applyRes' = "sync temp .env"
    /\ pc' = "cleanup"
    /\ UNCHANGED <<setup, ticker, last, disk, locals, history, fetchRes, confirmRes, reloadHist, result>>

Sync ==
    /\ pc = "sync"
    /\ pc' = "close"
    /\ UNCHANGED <<setup, ticker, last, disk, locals, history, fetchRes, applyRes, confirmRes,
                   reloadHist, result>>

CloseFail ==
    /\ pc = "close"
    /\ applyRes' = "close temp .env"
    /\ pc' = "cleanup"
    /\ UNCHANGED <<setup, ticker, last, disk, locals, history, fetchRes, confirmRes, reloadHist, result>>

Close ==
    /\ pc = "close"
    /\ pc' = "rename"
    /\ UNCHANGED <<setup, ticker, last, disk, locals, history, fetchRes, applyRes, confirmRes,
                   reloadHist, result>>

RenameFail ==
    /\ pc = "rename"
    /\ applyRes' = "rename temp -> .env"
    /\ pc' = "cleanup"
    /\ UNCHANGED <<setup, ticker, last, disk, locals, history, fetchRes, confirmRes, reloadHist, result>>

\* os.Rename replaces the target in one step; the deferred remove finds nothing
Rename ==
    /\ pc = "rename"
    /\ envFile' = FileOf(tmpFile.content)
    /\ tmpFile' = NoFile
    /\ applyRes' = "ok"
    /\ pc' = "confirm"
    /\ UNCHANGED <<setup, ticker, last, locals, history, fetchRes, confirmRes, reloadHist, result>>

\* Cleanup that ends the process on the error, as log.Fatalf would
CleanupExits ==
    /\ pc = "cleanup"
    /\ tmpFile' = RemoveTemp(tmpFile)
    /\ pc' = "exit"
    /\ result' = "err"
    /\ UNCHANGED <<setup, ticker, last, envFile, locals, history, fetchRes, applyRes, confirmRes,
                   reloadHist>>

\* a step after CreateTemp failed: the deferred function runs, the error is returned
Cleanup ==
    /\ pc = "cleanup"
    /\ tmpFile' = RemoveTemp(tmpFile)
    /\ UpdateFails(applyRes)

(***************************************************************************)
(* pollAndUpdate: confirm, advance the baseline, reload                    *)
(***************************************************************************)
\* ConfirmReadFail with the error only logged and the cycle going on
ConfirmReadFailIgnored ==
    /\ pc = "confirm"
    /\ confirmRes' = "readErr"
    /\ pc' = "advance"
    /\ UNCHANGED <<setup, ticker, last, disk, locals, history, fetchRes, applyRes, reloadHist,
                   result>>

\* os.ReadFile fails in confirmEnvValues
ConfirmReadFail ==
    /\ pc = "confirm"
    /\ confirmRes' = "readErr"
    /\ Return("err")
    /\ UNCHANGED <<setup, ticker, last, disk, locals, history, fetchRes, applyRes, reloadHist>>

\* ConfirmMismatch with the cache updated before the confirmation
ConfirmMismatchAdvanced ==
    /\ pc = "confirm"
    /\ ~ConfirmOk(envFile.content, updates)
    /\ confirmRes' = "mismatch"
    /\ last' = AdvanceLastSeen(payload, last)
    /\ Return("err")
    /\ UNCHANGED <<setup, ticker, disk, locals, history, fetchRes, applyRes, reloadHist>>

\* a key is missing from the parsed file or holds another value
ConfirmMismatch ==
    /\ pc = "confirm"
    /\ ~ConfirmOk(envFile.content, updates)
    /\ confirmRes' = "mismatch"
    /\ Return("err")
    /\ UNCHANGED <<setup, ticker, last, disk, locals, history, fetchRes, applyRes, reloadHist>>

Confirm ==
    /\ pc = "confirm"
    /\ ConfirmOk(envFile.content, updates)
    /\ confirmRes' = "ok"
    /\ pc' = "advance"
    /\ UNCHANGED <<setup, ticker, last, disk, locals, history, fetchRes, applyRes, reloadHist, result>>

\* update the last-seen cache
Advance ==
    /\ pc = "advance"
    /\ last' = AdvanceLastSeen(payload, last)
    /\ pc' = "reload"
    /\ UNCHANGED <<setup, ticker, disk, locals, history, fetchRes, applyRes, confirmRes, reloadHist,
                   result>>

DaemonReload == "sudo systemctl daemon-reload"
RestartBidder == "sudo systemctl restart bidder"

\* reloadAndRestart going on to the next command after a failed one
ReloadRunsContinue(dry) ==
    IF dry THEN {[cmds |-> <<>>, ok |-> TRUE]}
    ELSE {[cmds |-> <<[args |-> DaemonReload, ok |-> a], [args |-> RestartBidder, ok |-> b]>>,
           ok |-> a /\ b] : a, b \in BOOLEAN}

\* the runs of reloadAndRestart: the commands executed, each with whether it
\* succeeded, and whether the call returns nil
ReloadRuns(dry) ==
    IF dry THEN {[cmds |-> <<>>, ok |-> TRUE]}
    ELSE {[cmds |-> <<[args |-> DaemonReload, ok |-> FALSE]>>, ok |-> FALSE],
          [cmds |-> <<[args |-> DaemonReload, ok |-> TRUE],
                      [args |-> RestartBidder, ok |-> FALSE]>>, ok |-> FALSE],
          [cmds |-> <<[args |-> DaemonReload, ok |-> TRUE],
                      [args |-> RestartBidder, ok |-> TRUE]>>, ok |-> TRUE]}

\* reloadAndRestart returns nil; pollAndUpdate returns nil
Reload ==
    /\ pc = "reload"
    /\ \E r \in ReloadRuns(dryRun) : r.ok /\ cmds' = r.cmds
    /\ reloadRes' = "ok"
    /\ reloadCalls' = reloadCalls + 1
    /\ Return("nil")
    /\ UNCHANGED <<setup, ticker, last, disk, locals, history, fetchRes, applyRes, confirmRes>>

\* ReloadFail that puts the cache back and returns the error
ReloadFailReverts ==
    /\ pc = "reload"
    /\ \E r \in ReloadRuns(dryRun) : ~r.ok /\ cmds' = r.cmds
    /\ reloadRes' = "err"
    /\ reloadCalls' = reloadCalls + 1
    /\ last' = lastAtStart
    /\ Return("err")
    /\ UNCHANGED <<setup, ticker, disk, locals, history, fetchRes, applyRes, confirmRes>>

\* reloadAndRestart returns an error: a warning is logged, pollAndUpdate returns nil
ReloadFail ==
    /\ pc = "reload"
    /\ \E r \in ReloadRuns(dryRun) : ~r.ok /\ cmds' = r.cmds
    /\ reloadRes' = "err"
    /\ reloadCalls' = reloadCalls + 1
    /\ Return("nil")
    /\ UNCHANGED <<setup, ticker, last, disk, locals, history, fetchRes, applyRes, confirmRes>>

(***************************************************************************)
(* main: the loop                                                          *)
(***************************************************************************)
\* <-ticker.C delivers and the loop calls pollAndUpdate again
NextCycle ==
    /\ pc = "tick"
    /\ pc' = "poll"
    /\ prev' = IF confirmRes = "ok"
               THEN [confirmed |-> TRUE, reloadErr |-> (reloadRes = "err"), payload |-> payload]
               ELSE NoPrev
    /\ lastAtStart' = last
    /\ fileAtStart' = envFile
    /\ tmpFile' = NoFile
    /\ payload' = NilPayload
    /\ updates' = NoUpdates
    /\ content' = <<>>
    /\ statOk' = FALSE
    /\ fetchRes' = "none"
    /\ applyRes' = "none"
    /\ confirmRes' = "none"
    /\ reloadRes' = "none"
    /\ reloadCalls' = 0
    /\ cmds' = <<>>
    /\ result' = "none"
    /\ UNCHANGED <<setup, last, envFile>>

\* the tick arrives and is received: the ticker itself is left out
Tick ==
    /\ NextCycle
    /\ UNCHANGED ticker

Next ==
    \/ FetchFail \/ PollNoChange \/ PollDetect
    \/ ReadEnvFail \/ ReadEnv
    \/ CreateTempFail \/ CreateTemp
    \/ ChmodFail \/ Chmod
    \/ WriteTempFail \/ WriteTemp
    \/ SyncFail \/ Sync
    \/ CloseFail \/ Close
    \/ RenameFail \/ Rename
    \/ Cleanup
    \/ ConfirmReadFail \/ ConfirmMismatch \/ Confirm
    \/ Advance
    \/ Reload \/ ReloadFail
    \/ Tick

Spec == Init /\ [][Next]_vars

(***************************************************************************)
(* Change detection on its own: every baseline against every payload.      *)
(***************************************************************************)
\* largest value (in units of 1e-7, resp. in units) of a field in SpecDetect
MaxDetectValue == 1

DetectValues == 0..MaxDetectValue

Baselines == [SmallBid : DetectValues, HasSmallBid : BOOLEAN,
              LargeBid : DetectValues, HasLargeBid : BOOLEAN,
              MaxConcurrency : DetectValues, HasMaxConcurrency : BOOLEAN,
              Initialized : BOOLEAN]

DetectPayloads == [SmallBid : {<<>>} \cup {<<v>> : v \in DetectValues},
                   LargeBid : {<<>>} \cup {<<v>> : v \in DetectValues},
                   MaxConcurrency : {<<>>} \cup {<<v>> : v \in DetectValues}]

\* the variables a specification of one function does not use
Unused(vs) ==
    /\ "dryRun" \in vs => dryRun = FALSE
    /\ "last" \in vs => last = ZeroLastSeen
    /\ "envFile" \in vs => envFile = NoFile
    /\ "payload" \in vs => payload = NilPayload
    /\ "updates" \in vs => updates = NoUpdates
    /\ tmpFile = NoFile
    /\ content = <<>>
    /\ statOk = FALSE
    /\ lastAtStart = last
    /\ fileAtStart = envFile
    /\ fetchRes = "none"
    /\ applyRes = "none"
    /\ confirmRes = "none"
    /\ reloadRes = "none"
    /\ reloadCalls = 0
    /\ cmds = <<>>
    /\ result = "none"
    /\ prev = NoPrev
    /\ remote = NilPayload
    /\ NoTicker

InitDetect ==
    /\ pc = "detect"
    /\ last \in Baselines
    /\ payload \in DetectPayloads
    /\ Unused({"dryRun", "envFile", "updates"})

\* lines 114-131 of pollAndUpdate on the drawn payload and baseline
Detect ==
    /\ pc = "detect"
    /\ updates' = DetectChanges(payload, last)
    /\ pc' = "detected"
    /\ UNCHANGED <<setup, ticker, last, disk, payload, content, statOk, history, fetchRes,
                   applyRes, confirmRes, reloadHist, result>>

SpecDetect == InitDetect /\ [][Detect]_vars

(***************************************************************************)
(* The text transformation of updateEnvFile on its own: every document of  *)
(* at most MaxLines lines of LinePool against every update set.            *)
(***************************************************************************)
MaxLines == 2
MaxTrailingNewlines == 2

LinePool ==
    { <<>>,
      <<"x">>,
      <<"export">>,
      <<envSmallBid>>,
      <<"#", envSmallBid, "=", "1">>,
      <<envSmallBid, "=", "1">>,
      <<"export", " ", envSmallBid, "=", "1">>,
      <<"export", " ", " ", envSmallBid, "=", "1">>,
      <<"export", "\t", envSmallBid, "=", "1">>,
      <<" ", envSmallBid, "=", "1">>,
      <<envSmallBid, " ", "=", "1">>,
      <<"x", envSmallBid, "=", "1">>,
      <<envLargeBid, "=", "2">> }

RECURSIVE JoinLines(_)
\* the lines separated by "\n"
JoinLines(ls) == IF ls = <<>> THEN <<>>
                 ELSE IF Len(ls) = 1 THEN ls[1]
                 ELSE ls[1] \o <<"\n">> \o JoinLines(Tail(ls))

Newlines(n) == [i \in 1..n |-> "\n"]

Docs == {JoinLines(ls) \o Newlines(t) :
            ls \in UNION {[1..n -> LinePool] : n \in 0..MaxLines},
            t \in 0..MaxTrailingNewlines}

\* the update sets a first cycle can compute
UpdateSets == {DetectChanges(p, ZeroLastSeen) : p \in Payloads \ {NilPayload}}

InitApply ==
    /\ pc = "apply"
    /\ envFile \in {FileOf(d) : d \in Docs}
    /\ updates \in UpdateSets
    /\ Unused({"dryRun", "last", "payload"})

\* lines 196-229 of updateEnvFile on the drawn document and update set
ApplyText ==
    /\ pc = "apply"
    /\ \E o1, o2 \in RangeOrders(DOMAIN updates) :
          content' = NewContent(envFile.content, updates, o1, o2)
    /\ pc' = "applied"
    /\ UNCHANGED <<setup, ticker, last, disk, payload, updates, statOk, history, fetchRes,
                   applyRes, confirmRes, reloadHist, result>>

SpecApply == InitApply /\ [][ApplyText]_vars

(***************************************************************************)
(* Properties.                                                             *)
(***************************************************************************)
\* the three parameters: payload and baseline field, presence flag, key
Params == { [field |-> "SmallBid", has |-> "HasSmallBid", key |-> envSmallBid],
            [field |-> "LargeBid", has |-> "HasLargeBid", key |-> envLargeBid],
            [field |-> "MaxConcurrency", has |-> "HasMaxConcurrency",
             key |-> envMaxConcurrency] }

Present(p, q) == p[q.field] # <<>>

ApplyFailed == applyRes \notin {"none", "ok"}
ConfirmFailed == confirmRes \in {"readErr", "mismatch"}

UpdateSteps == {"update", "createTemp", "chmod", "write", "sync", "close", "rename", "cleanup"}

\* C1: when updateEnvFile or confirmEnvValues returned an error, every field
\* of the baseline is after the cycle what it was before the cycle.
C1_BaselineKeptOnFailure ==
    (pc = "tick" /\ (ApplyFailed \/ ConfirmFailed)) => last = lastAtStart

\* a cycle that failed at confirm on a mismatch, with a recorded baseline
C1_Witness ==
    /\ pc = "tick"
    /\ confirmRes = "mismatch"
    /\ lastAtStart.HasSmallBid
    /\ DetectSmallBid(payload, lastAtStart)

\* C2: the update set holds a parameter's key exactly when the parameter is
\* present in the snapshot and the baseline is not initialized, has no
\* recorded value for it, or records another value; so it is empty when the
\* baseline is initialized and equals every present field.
C2_DetectIff ==
    pc = "detected" =>
       /\ \A q \in Params :
             q.key \in DOMAIN updates <=>
                /\ Present(payload, q)
                /\ \/ ~last.Initialized
                   \/ ~last[q.has]
                   \/ last[q.field] # payload[q.field][1]
       /\ (/\ last.Initialized
           /\ \A q \in Params :
                 Present(payload, q) => last[q.has] /\ last[q.field] = payload[q.field][1])
          => DOMAIN updates = {}

\* an initialized baseline without a recorded large bid, the payload carrying
\* the value the zero field happens to hold
C2_Witness ==
    /\ pc = "detected"
    /\ last.Initialized /\ ~last.HasLargeBid
    /\ payload.LargeBid = <<last.LargeBid>>
    /\ DOMAIN updates = {envLargeBid}

\* C3: after a cycle whose apply and confirm succeeded for a snapshot, a cycle
\* that fetches the same snapshot computes an empty update set and is a no-op:
\* no write, no baseline change, no reload.
C3_RepeatIsNoOp ==
    (prev.confirmed /\ fetchRes = "ok" /\ payload = prev.payload) =>
       /\ DOMAIN updates = {}
       /\ pc = "tick" /\ result = "nil"
       /\ applyRes = "none" /\ envFile = fileAtStart /\ ~tmpFile.exists
       /\ last = lastAtStart
       /\ reloadCalls = 0 /\ cmds = <<>>

C3_Witness ==
    /\ prev.confirmed /\ fetchRes = "ok" /\ payload = prev.payload
    /\ Present(payload, CHOOSE q \in Params : q.key = envMaxConcurrency)
    /\ pc = "tick"

\* C4: once confirm succeeded the baseline records, for each parameter present
\* in the snapshot, the snapshot value with the presence flag set, and for each
\* absent parameter the value and flag it had before.
C4_AdvanceExactlyPresent ==
    (confirmRes = "ok" /\ pc \in {"reload", "tick"}) =>
       \A q \in Params :
          IF Present(payload, q)
          THEN last[q.field] = payload[q.field][1] /\ last[q.has]
          ELSE last[q.field] = lastAtStart[q.field] /\ last[q.has] = lastAtStart[q.has]

\* the baseline was advanced for a new small bid while the recorded large bid,
\* absent from the snapshot, stayed
C4_Witness ==
    /\ confirmRes = "ok" /\ pc = "reload"
    /\ payload.LargeBid = <<>> /\ lastAtStart.HasLargeBid
    /\ payload.SmallBid # <<>> /\ lastAtStart.HasSmallBid
    /\ last.SmallBid # lastAtStart.SmallBid

\* C5: during the write the target holds its previous content or the complete
\* new content; when a step fails the target keeps its previous content, and
\* the temporary file is gone once updateEnvFile has returned.
C5_AtomicReplace ==
    /\ envFile = fileAtStart \/ (applyRes = "ok" /\ envFile = FileOf(content))
    /\ (pc \in UpdateSteps \/ ApplyFailed) => envFile = fileAtStart
    /\ (pc \notin UpdateSteps) => ~tmpFile.exists

\* a write that failed half way: the temporary file holds a part of the text
C5_Witness ==
    /\ pc = "cleanup" /\ applyRes = "write temp .env"
    /\ tmpFile.exists
    /\ Len(tmpFile.content) > 0 /\ Len(tmpFile.content) < Len(content)
    /\ envFile.exists /\ envFile.content # content

\* the text written for a value of parameter q
Canonical(q, v) == IF q.key = envMaxConcurrency THEN FormatInt(v) ELSE formatFloat(v)

\* for every parameter the baseline l records, parsing file f yields the
\* canonical text of the recorded value
InSync(l, f) ==
    LET found == parseEnvToMap(f.content)
    IN  \A q \in Params :
           l[q.has] => /\ <<q.key>> \in DOMAIN found
                       /\ found[<<q.key>>] = Canonical(q, l[q.field])

C7_RoundTrip == pc = "applied" => ConfirmOk(content, updates)

\* a line that parseEnvToMap skips or indexes under a key outside U
Unrelated(line, U) ==
    ParseLine(line) = <<>> \/ ParseLine(line)[1] \notin {<<k>> : k \in DOMAIN U}

\* C8: every comment, blank or unparseable line and every data line whose key
\* is not in the update set is in the new text what it was, at its position.
C8_UnrelatedLinesKept ==
    pc = "applied" =>
       LET old == ScanLines(envFile.content)
           new == ScanLines(content)
       IN  /\ Len(new) >= Len(old)
           /\ \A i \in 1..Len(old) : Unrelated(old[i], updates) => new[i] = old[i]

\* the baseline records every present field of the snapshot
BaselineHolds(p, l) ==
    l.Initialized /\ \A q \in Params : Present(p, q) => l[q.has] /\ l[q.field] = p[q.field][1]

\* C9: reloadAndRestart is called in a cycle exactly when apply and confirm
\* both succeeded, once, and after the baseline was advanced.
C9_ReloadIffConfirmed ==
    /\ reloadCalls <= 1
    /\ pc = "tick" => (reloadCalls = 1 <=> (applyRes = "ok" /\ confirmRes = "ok"))
    /\ reloadCalls = 1 => (applyRes = "ok" /\ confirmRes = "ok")
    /\ (pc = "reload" \/ reloadCalls = 1) => BaselineHolds(payload, last)

\* a live cycle that ran both commands after advancing the baseline
C9_Witness ==
    /\ pc = "tick" /\ reloadCalls = 1 /\ reloadRes = "ok"
    /\ ~dryRun /\ Len(cmds) = 2
    /\ last # lastAtStart

\* C10: after a cycle whose reload failed the baseline holds the snapshot, the
\* file holds the written values and pollAndUpdate returned nil; a following
\* cycle with the same snapshot detects nothing and does not reload.
C10_ReloadFailureKeeps ==
    /\ (pc = "tick" /\ reloadRes = "err") =>
          /\ confirmRes = "ok"
          /\ BaselineHolds(payload, last)
          /\ envFile = FileOf(content)
          /\ \A k \in DOMAIN updates :
                parseEnvToMap(envFile.content)[<<k>>] = updates[k]
          /\ result = "nil"
    /\ (prev.reloadErr /\ fetchRes = "ok" /\ payload = prev.payload) =>
          (DOMAIN updates = {} /\ pc = "tick" /\ reloadCalls = 0)

\* the cycle after a failed reload fetched the same snapshot
C10_Witness ==
    /\ prev.reloadErr /\ fetchRes = "ok" /\ payload = prev.payload
    /\ pc = "tick" /\ reloadCalls = 0
    /\ last = lastAtStart /\ last.HasSmallBid

FetchFailed == fetchRes \in {"transport", "status", "decode"}

\* C13: a cycle whose fetch failed (transport, status or decode) writes no
\* file, changes no field of the baseline and attempts no reload.
C13_FetchFailureNoEffect ==
    FetchFailed =>
       /\ pc = "tick" /\ result = "err"
       /\ applyRes = "none" /\ envFile = fileAtStart /\ ~tmpFile.exists
       /\ last = lastAtStart
       /\ reloadCalls = 0 /\ cmds = <<>>

\* a failed decode in a cycle that started with a recorded baseline and a file
C13_Witness ==
    /\ pc = "tick" /\ fetchRes = "decode"
    /\ last.Initialized /\ last.HasSmallBid /\ envFile.exists

\* C14: the restart command runs only in live mode and only right after a
\* daemon-reload that succeeded in the same call; in dry-run mode no command
\* runs, the call returns nil and the file of the cycle was still written.
C14_RestartAfterReload ==
    /\ \A i \in 1..Len(cmds) :
          cmds[i].args = RestartBidder =>
             /\ ~dryRun
             /\ i > 1 /\ cmds[i - 1].args = DaemonReload /\ cmds[i - 1].ok
    /\ dryRun => cmds = <<>>
    /\ (dryRun /\ reloadCalls = 1) =>
          (reloadRes = "ok" /\ result = "nil" /\ applyRes = "ok" /\ envFile = FileOf(content))

\* a dry-run cycle that rewrote the file and called reloadAndRestart
C14_Witness ==
    /\ dryRun /\ pc = "tick" /\ reloadCalls = 1
    /\ envFile # fileAtStart /\ fileAtStart.exists

HasFlags == {"HasSmallBid", "HasLargeBid", "HasMaxConcurrency"}

\* C20: Initialized holds exactly when one of the three presence flags holds,
\* and none of the four flags goes from true back to false.
C20_FlagsInvariant ==
    /\ [](last.Initialized <=> \E h \in HasFlags : last[h])
    /\ [][\A h \in HasFlags \cup {"Initialized"} : last[h] => last'[h]]_vars

\* a second advance that set a further flag on an initialized baseline
C20_Witness ==
    /\ pc = "reload"
    /\ lastAtStart.Initialized /\ lastAtStart.HasSmallBid /\ ~lastAtStart.HasLargeBid
    /\ last.HasSmallBid /\ last.HasLargeBid

RECURSIVE TrailingNewlines(_)
\* the number of "\n" at the end of s
TrailingNewlines(s) == IF HasSuffixNL(s) THEN 1 + TrailingNewlines(SubSeq(s, 1, Len(s) - 1))
                       ELSE 0

\* C15 as stated: the text updateEnvFile computes ends with exactly one newline.
C15_ExactlyOneNewline == pc = "applied" => TrailingNewlines(content) = 1

\* C15 as amended: the text ends with a newline; with exactly one when the
\* existing content ended with at most one newline or a key was appended;
\* otherwise with the newlines the existing content ended with.
C15_AtLeastOneNewline ==
    pc = "applied" =>
       LET old == envFile.content
           appended == Len(ScanLines(content)) > Len(ScanLines(old))
       IN  /\ TrailingNewlines(content) >= 1
           /\ (TrailingNewlines(old) <= 1 \/ appended) => TrailingNewlines(content) = 1
           /\ (TrailingNewlines(old) >= 2 /\ ~appended)
                 => TrailingNewlines(content) = TrailingNewlines(old)

\* a key replaced in place in a text that ends with a blank line
C15_Witness ==
    /\ pc = "applied"
    /\ envFile.content = <<envSmallBid, "=", "1", "\n", "\n">>
    /\ DOMAIN updates = {envSmallBid}
    /\ TrailingNewlines(content) = 2
    /\ Len(ScanLines(content)) = 2

\* the line KEY=VALUE that the second loop of updateEnvFile writes
PlainLine(k, v) == <<k, "=">> \o v

\* C16: applying {K: V} to a text in which the parser finds no line for K
\* gives the lines of the text followed by the one new line K=V.
C16_AppendOnAbsence ==
    pc = "applied" =>
       \A k \in Keys :
          (DOMAIN updates = {k} /\ <<k>> \notin DOMAIN parseEnvToMap(envFile.content))
             => ScanLines(content) = Append(ScanLines(envFile.content), PlainLine(k, updates[k]))

\* the line "export KEY=..." whatever its value
IsExportLine(line, k) ==
    Len(line) >= 4 /\ SubSeq(line, 1, 4) = <<"export", " ", k, "=">>

\* C17: a line "export K=V1" of the text is, for K in the update set, the line
\* "export K=V2" at the same position; the only new lines are those of the
\* keys that matched no line, so none is appended for K.
C17_ReplaceInPlace ==
    pc = "applied" =>
       LET old == ScanLines(envFile.content)
           new == ScanLines(content)
       IN  \A k \in DOMAIN updates :
              \A i \in 1..Len(old) :
                 IsExportLine(old[i], k) =>
                    /\ Len(new) >= Len(old)
                    /\ new[i] = <<"export", " ", k, "=">> \o updates[k]
                    /\ \A j \in (Len(old) + 1)..Len(new) : new[j][1] # k
                    /\ DOMAIN updates = {k} => Len(new) = Len(old)

\* an export line for the small bid replaced below a comment line
C17_Witness ==
    /\ pc = "applied"
    /\ envFile.content = <<"#", envSmallBid, "=", "1", "\n",
                            "export", " ", envSmallBid, "=", "1", "\n">>
    /\ DOMAIN updates = {envSmallBid}
    /\ content = <<"#", envSmallBid, "=", "1", "\n",
                    "export", " ", envSmallBid, "=", "0", ".", "2", "\n">>

\* some line of the text is a data line with key k and value v
SomeLineHolds(text, k, v) ==
    \E i \in 1..Len(ScanLines(text)) : ParseLine(ScanLines(text)[i]) = <<<<k>>, v>>

\* the last data line of the text with key k has the value v
LastLineHolds(text, k, v) ==
    LET lines == ScanLines(text)
    IN  \E i \in 1..Len(lines) :
           /\ ParseLine(lines[i]) = <<<<k>>, v>>
           /\ \A j \in (i + 1)..Len(lines) :
                 ParseLine(lines[j]) = <<>> \/ ParseLine(lines[j])[1] # <<k>>

\* C18 as stated: confirmEnvValues, having read the file, returns nil exactly
\* when for every key of the update set some data line with that key has the
\* requested value; and it leaves the file as it was written.
C18_ConfirmIffSomeLine ==
    confirmRes \in {"ok", "mismatch"} =>
       /\ confirmRes = "ok" <=>
             \A k \in DOMAIN updates : SomeLineHolds(envFile.content, k, updates[k])
       /\ envFile = FileOf(content)

\* C18 as amended: confirmEnvValues returns nil exactly when it could read the
\* file and, for every key of the update set, the last data line with that key
\* has the requested value; and it leaves the file as it was written.
C18_ConfirmIffLastLine ==
    confirmRes # "none" =>
       /\ confirmRes = "ok" <=>
             /\ confirmRes # "readErr"
             /\ \A k \in DOMAIN updates : LastLineHolds(envFile.content, k, updates[k])
       /\ envFile = FileOf(content)

\* a confirm that failed although an earlier line holds the requested value
C18_Witness ==
    /\ pc = "tick" /\ confirmRes = "mismatch"
    /\ envSmallBid \in DOMAIN updates
    /\ SomeLineHolds(envFile.content, envSmallBid, updates[envSmallBid])

(***************************************************************************)
(* The watcher against an endpoint that serves one snapshot at a time, as  *)
(* the mock endpoint does: a decoded payload is the snapshot being served. *)
(* The loop runs forever, the ticker keeps firing, and a system call that  *)
(* can succeed again and again eventually does.                            *)
(***************************************************************************)
\* the snapshots the endpoint serves
ServedPayloads == {p \in Payloads : p.LargeBid = <<>> /\ p.MaxConcurrency = <<>>}

InitServed ==
    /\ pc = "poll"
    /\ dryRun \in BOOLEAN
    /\ last = ZeroLastSeen
    /\ envFile \in InitialFiles
    /\ lastAtStart = ZeroLastSeen
    /\ fileAtStart = envFile
    /\ prev = NoPrev
    /\ remote \in ServedPayloads
    /\ NoTicker
    /\ InitCycle

\* GET /config answers with the snapshot being served and the body decodes
FetchServed ==
    /\ PollNoChange \/ PollDetect
    /\ payload' = remote

\* POST /set of the mock endpoint: another snapshot is served from now on
handleSet ==
    /\ \E p \in ServedPayloads : p # remote /\ remote' = p
    /\ UNCHANGED <<pc, dryRun, ticker, last, disk, locals, history, fetchRes, applyRes,
                   confirmRes, reloadHist, result>>

\* a step of pollAndUpdate
pollAndUpdate ==
    \/ FetchFail \/ FetchServed
    \/ ReadEnvFail \/ ReadEnv
    \/ CreateTempFail \/ CreateTemp
    \/ ChmodFail \/ Chmod
    \/ WriteTempFail \/ WriteTemp
    \/ SyncFail \/ Sync
    \/ CloseFail \/ Close
    \/ RenameFail \/ Rename
    \/ Cleanup
    \/ ConfirmReadFail \/ ConfirmMismatch \/ Confirm
    \/ Advance
    \/ Reload \/ ReloadFail

\* a step of the watcher
WatcherNext == pollAndUpdate \/ Tick

NextServed == WatcherNext \/ handleSet

\* the process keeps running and the ticker keeps firing; fetch, every step of
\* updateEnvFile and the read of confirmEnvValues succeed again and again
\* when they are attempted again and again.  The steps that compute on the
\* text are enabled exactly at their value of pc, and their strong fairness
\* is written with that state predicate in place of ENABLED.
FairServed ==
    /\ WF_vars(WatcherNext)
    /\ <>[](pc # "poll") \/ []<><<FetchServed>>_vars
    /\ <>[](pc # "update") \/ []<><<ReadEnv>>_vars
    /\ SF_vars(CreateTemp) /\ SF_vars(Chmod) /\ SF_vars(WriteTemp)
    /\ SF_vars(Sync) /\ SF_vars(Close) /\ SF_vars(Rename)
    /\ <>[](pc # "confirm") \/ []<><<ConfirmMismatch \/ Confirm>>_vars

SpecServed == InitServed /\ [][NextServed]_vars /\ FairServed

\* the baseline records the value of every parameter present in snapshot p and
\* the file holds the canonical text of that value under the parameter's key
SnapshotHeld(p) ==
    LET found == parseEnvToMap(envFile.content)
    IN  \A q \in Params :
           Present(p, q) =>
              /\ last[q.has] /\ last[q.field] = p[q.field][1]
              /\ envFile.exists
              /\ <<q.key>> \in DOMAIN found
              /\ found[<<q.key>>] = Canonical(q, p[q.field][1])

\* C12: whenever the endpoint serves the same snapshot S from some point on,
\* the baseline eventually records S's value for every parameter present in S
\* and the file holds S's canonical value under each corresponding key.
C12_NoLostUpdates ==
    \A S \in ServedPayloads : []<>(remote # S \/ SnapshotHeld(S))

\* a stage that failed leaves the stages after it undone
StagesSkipped ==
    /\ FetchFailed => pc = "tick" /\ applyRes = "none" /\ confirmRes = "none" /\ reloadCalls = 0
    /\ ApplyFailed => pc \in {"cleanup", "tick"} /\ confirmRes = "none" /\ reloadCalls = 0
    /\ ConfirmFailed => pc = "tick" /\ reloadCalls = 0
    /\ reloadRes = "err" => pc = "tick"
    /\ (FetchFailed \/ ConfirmFailed \/ (ApplyFailed /\ pc = "tick")) => result = "err"

MaxTicks == 3

InitLoop ==
    /\ pc = "poll"
    /\ dryRun \in BOOLEAN
    /\ last = ZeroLastSeen
    /\ envFile \in InitialFiles
    /\ lastAtStart = ZeroLastSeen
    /\ fileAtStart = envFile
    /\ prev = NoPrev
    /\ remote \in ServedPayloads
    /\ tickerC = 0
    /\ fired = 0
    /\ started = 1
    /\ dropped = 0
    /\ InitCycle

\* TickerFire with a channel that queues every tick
TickerFireQueues ==
    /\ fired < MaxTicks
    /\ fired' = fired + 1
    /\ tickerC' = tickerC + 1
    /\ UNCHANGED <<pc, setup, started, dropped, last, disk, locals, history, fetchRes, applyRes,
                   confirmRes, reloadHist, result>>

\* the interval has passed: the tick goes into the channel if it is empty
TickerFire ==
    /\ fired < MaxTicks
    /\ fired' = fired + 1
    /\ IF tickerC = 1
       THEN dropped' = dropped + 1 /\ tickerC' = tickerC
       ELSE tickerC' = 1 /\ dropped' = dropped
    /\ UNCHANGED <<pc, setup, started, last, disk, locals, history, fetchRes, applyRes,
                   confirmRes, reloadHist, result>>

\* <-ticker.C returns and the next cycle is started
LoopReceive ==
    /\ tickerC = 1
    /\ NextCycle
    /\ tickerC' = 0
    /\ started' = started + 1
    /\ UNCHANGED <<fired, dropped>>

NextLoop == pollAndUpdate \/ TickerFire \/ LoopReceive

\* the process keeps running: a cycle finishes and a waiting tick is received
SpecLoop == InitLoop /\ [][NextLoop]_vars /\ WF_vars(pollAndUpdate \/ LoopReceive)

\* the loop waits and no tick is in the channel
Idle == pc = "tick" /\ tickerC = 0

\* C19 as stated: no tick is skipped; when the loop waits on an empty channel
\* the number of cycles started is the number of ticks fired plus the first
\* immediate cycle, eventually for good.
C19_NoTickSkipped ==
    /\ [](Idle => started = fired + 1)
    /\ <>[](started = fired + 1)

\* C19 as amended: the channel holds at most one tick and a tick that fires
\* while one is waiting is dropped; every tick fired is received, waiting or
\* dropped, so that when the loop waits on an empty channel the number of
\* cycles started is the first immediate cycle plus the ticks fired minus the
\* ticks dropped, eventually for good; no cycle starts without its tick.
C19_TicksDroppedWhenSlow ==
    /\ [](tickerC \in {0, 1})
    /\ [](started + tickerC + dropped = fired + 1)
    /\ [][dropped' # dropped => tickerC = 1 /\ fired' = fired + 1 /\ pc' = pc]_vars
    /\ <>[](started + dropped = fired + 1)

\* the first cycle outlasted two intervals: the second tick was dropped and
\* the loop, having run the cycle of the first tick, waits
C19_Witness ==
    /\ Idle
    /\ fired = 2 /\ dropped = 1 /\ started = 2
====
